---- MODULE Spec2Model ----
(***************************************************************************)
(* Model of the Deref implementation generated by lazy_static_core!        *)
(* (src/src/lib.rs, lines 90-114).  Every `static ref N: T = e;` gets its  *)
(* own hidden `static mut data: *const T` and `static INITIALIZED:         *)
(* AtomicBool`; deref() runs a compare-and-swap on the flag, the winner    *)
(* evaluates `e`, boxes it and stores the pointer into `data`, and every   *)
(* caller then turns `data` into a reference and returns it.               *)
(*                                                                         *)
(* Threads interleave at the granularity of the shared-memory accesses of  *)
(* deref(): the SeqCst compare-and-swap (line 104), the evaluation of `e`  *)
(* (line 105, right-hand side), the plain store to `data` (line 105) and   *)
(* the plain load of `data` (line 108).  The store and the load are not    *)
(* synchronised with each other; the interleaving decides which of the two *)
(* values (the initial null pointer, the boxed pointer) a load returns.    *)
(***************************************************************************)
EXTENDS Naturals, Sequences, FiniteSets, TLC

\* ----- bounds of the model ---------------------------------------------
\* threads that deref the statics
NumThreads == 2
\* top-level derefs started in one execution, over all threads
MaxCalls == 3
\* nesting of deref() activations on one thread (a deref inside an `$e`)
MaxDepth == 3

\* ----- program constants -----------------------------------------------
\* `0 as *const $T`, the initial value of `data`
NULL == 0
\* number of entries the example's HASHMAP constructor inserts
EntryCount == 3

Threads == 1..NumThreads
\* the statics declared in the crate's example
Cells == {"HASHMAP", "COUNT"}
\* what a constructor expression `$e` can do: return a value, panic, never
\* return, or compute its value from a deref of the cell HASHMAP
\* (`HASHMAP.len()`; for the cell HASHMAP itself this is a re-entrant access)
Exprs == {"value", "panic", "diverge", "HASHMAP"}
\* values of T, abstracted to the number a `len()` of it yields
Values == 0..EntryCount

VARIABLES
    INITIALIZED,  \* [Cells -> BOOLEAN]   the AtomicBool of each cell
    data,         \* [Cells -> Nat]       the raw pointer of each cell
    heap,         \* Seq(Values)          heap[p] is the T boxed at address p
    stack,        \* [Threads -> Seq(frame)] activations of deref() per thread
    status,       \* [Threads -> {"running","panicked","crashed"}]
    calls,        \* Nat                  top-level derefs started so far
    expr,         \* [Cells -> Exprs]     the `$e` of each declaration
    evalCount,    \* [Cells -> Nat]       history: evaluations of `$e` begun
    winners,      \* [Cells -> Nat]       history: CAS that observed `false`
    casCount,     \* [Cells -> Nat]       history: CAS executed
    writes,       \* [Cells -> Nat]       history: stores to `data`
    returned,     \* [Cells -> SUBSET Nat] history: references deref() returned
    failures      \* [Cells -> Nat]       history: derefs the panic of `$e` left

vars == <<INITIALIZED, data, heap, stack, status, calls, expr,
          evalCount, winners, casCount, writes, returned, failures>>

hist == <<evalCount, winners, casCount, writes, returned, failures>>

\* ----- helpers ----------------------------------------------------------
Active(t) == status[t] = "running" /\ stack[t] # <<>>

Top(t) == stack[t][Len(stack[t])]

SetTop(t, f) == [stack EXCEPT ![t] = [@ EXCEPT ![Len(@)] = f]]

\* a fresh activation of deref() on cell c; `late` records whether the slot
\* was already published when the call started
NewFrame(c) ==
    [cell |-> c, pc |-> "cas", boxed |-> NULL, static_ref |-> NULL,
     arg |-> NULL, won |-> FALSE, late |-> INITIALIZED[c] /\ data[c] # NULL]

\* AtomicBool::compare_and_swap(old, new, SeqCst): the value found, and the
\* value left in the flag
compare_and_swap_load(cur, old, new) == [prev |-> cur, next |-> cur]

compare_and_swap(cur, old, new) ==
    [prev |-> cur, next |-> IF cur = old THEN new ELSE cur]

\* the branch condition of line 104: `... == false`
TakesBranch_always(prev) == TRUE

TakesBranch_inverted(prev) == prev = TRUE

TakesBranch(prev) == prev = FALSE

Init ==
    /\ INITIALIZED = [c \in Cells |-> FALSE]
    /\ data = [c \in Cells |-> NULL]
    /\ heap = <<>>
    /\ stack = [t \in Threads |-> <<>>]
    /\ status = [t \in Threads |-> "running"]
    /\ calls = 0
    /\ expr \in [Cells -> Exprs]
    /\ evalCount = [c \in Cells |-> 0]
    /\ winners = [c \in Cells |-> 0]
    /\ casCount = [c \in Cells |-> 0]
    /\ writes = [c \in Cells |-> 0]
    /\ returned = [c \in Cells |-> {}]
    /\ failures = [c \in Cells |-> 0]

\* ----- the steps of deref() ----------------------------------------------
\* a thread derefs the static c
Call(t, c) ==
    /\ status[t] = "running"
    /\ stack[t] = <<>>
    /\ calls < MaxCalls
    /\ stack' = [stack EXCEPT ![t] = <<NewFrame(c)>>]
    /\ calls' = calls + 1
    /\ UNCHANGED <<INITIALIZED, data, heap, status, expr, hist>>

\* line 104: INITIALIZED.compare_and_swap(false, true, SeqCst) == false
Cas(t) ==
    /\ Active(t)
    /\ Top(t).pc = "cas"
    /\ LET c == Top(t).cell
           r == compare_and_swap(INITIALIZED[c], FALSE, TRUE)
           w == TakesBranch(r.prev)
       IN /\ INITIALIZED' = [INITIALIZED EXCEPT ![c] = r.next]
          /\ stack' = SetTop(t, [Top(t) EXCEPT !.pc = IF w THEN "eval" ELSE "read",
                                               !.won = (r.prev = FALSE)])
          /\ winners' = [winners EXCEPT ![c] = IF r.prev = FALSE THEN @ + 1 ELSE @]
          /\ casCount' = [casCount EXCEPT ![c] = @ + 1]
    /\ UNCHANGED <<data, heap, status, calls, expr, evalCount, writes,
                   returned, failures>>

\* line 105, `box() ($e)` for an `$e` that returns a value
EvalValue(t) ==
    /\ Active(t)
    /\ Top(t).pc = "eval"
    /\ expr[Top(t).cell] = "value"
    /\ heap' = Append(heap, EntryCount)
    /\ stack' = SetTop(t, [Top(t) EXCEPT !.pc = "store", !.boxed = Len(heap) + 1])
    /\ evalCount' = [evalCount EXCEPT ![Top(t).cell] = @ + 1]
    /\ UNCHANGED <<INITIALIZED, data, status, calls, expr, winners, casCount,
                   writes, returned, failures>>

\* an unwinding that puts the flag back to `false`
EvalPanic_reset(t) ==
    /\ Active(t)
    /\ Top(t).pc = "eval"
    /\ expr[Top(t).cell] = "panic"
    /\ evalCount' = [evalCount EXCEPT ![Top(t).cell] = @ + 1]
    /\ failures' = [failures EXCEPT ![Top(t).cell] = @ + 1]
    /\ INITIALIZED' = [INITIALIZED EXCEPT ![Top(t).cell] = FALSE]
    /\ stack' = [stack EXCEPT ![t] = <<>>]
    /\ status' = [status EXCEPT ![t] = "panicked"]
    /\ UNCHANGED <<data, heap, calls, expr, winners, casCount,
                   writes, returned>>

\* line 105, an `$e` that panics: the thread unwinds out of every deref()
\* it is in; nothing in deref() catches the panic or resets the flag
EvalPanic(t) ==
    /\ Active(t)
    /\ Top(t).pc = "eval"
    /\ expr[Top(t).cell] = "panic"
    /\ evalCount' = [evalCount EXCEPT ![Top(t).cell] = @ + 1]
    /\ failures' = [failures EXCEPT ![Top(t).cell] = @ + 1]
    /\ stack' = [stack EXCEPT ![t] = <<>>]
    /\ status' = [status EXCEPT ![t] = "panicked"]
    /\ UNCHANGED <<INITIALIZED, data, heap, calls, expr, winners, casCount,
                   writes, returned>>

\* line 105, an `$e` that never returns: the thread enters it and stays
EvalDiverge(t) ==
    /\ Active(t)
    /\ Top(t).pc = "eval"
    /\ expr[Top(t).cell] = "diverge"
    /\ evalCount' = [evalCount EXCEPT ![Top(t).cell] = @ + 1]
    /\ stack' = SetTop(t, [Top(t) EXCEPT !.pc = "in_e"])
    /\ UNCHANGED <<INITIALIZED, data, heap, status, calls, expr, winners,
                   casCount, writes, returned, failures>>

\* line 105, an `$e` that derefs another static (`HASHMAP.len()`, line 52):
\* the evaluation starts with a nested deref() on the same thread
EvalDeref(t) ==
    /\ Active(t)
    /\ Top(t).pc = "eval"
    /\ expr[Top(t).cell] \in Cells
    /\ Len(stack[t]) < MaxDepth
    /\ evalCount' = [evalCount EXCEPT ![Top(t).cell] = @ + 1]
    /\ stack' = [stack EXCEPT ![t] =
                   Append([@ EXCEPT ![Len(@)] = [Top(t) EXCEPT !.pc = "in_e"]],
                          NewFrame(expr[Top(t).cell]))]
    /\ UNCHANGED <<INITIALIZED, data, heap, status, calls, expr, winners,
                   casCount, writes, returned, failures>>

\* line 105, the rest of such an `$e`: it reads the T behind the reference
\* the nested deref() returned and boxes the result.  Reading through a null
\* reference is undefined: the process faults, or the read yields any value.
EvalUse(t) ==
    /\ Active(t)
    /\ Top(t).pc = "use"
    /\ \/ /\ Top(t).arg # NULL
          /\ heap' = Append(heap, heap[Top(t).arg])
          /\ stack' = SetTop(t, [Top(t) EXCEPT !.pc = "store",
                                               !.boxed = Len(heap) + 1])
          /\ UNCHANGED status
       \/ /\ Top(t).arg = NULL
          /\ \E v \in Values :
                /\ heap' = Append(heap, v)
                /\ stack' = SetTop(t, [Top(t) EXCEPT !.pc = "store",
                                                     !.boxed = Len(heap) + 1])
          /\ UNCHANGED status
       \/ /\ Top(t).arg = NULL
          /\ status' = [u \in Threads |-> "crashed"]
          /\ UNCHANGED <<heap, stack>>
    /\ UNCHANGED <<INITIALIZED, data, calls, expr, hist>>

\* line 105: data = transmute(box ...)
Store(t) ==
    /\ Active(t)
    /\ Top(t).pc = "store"
    /\ data' = [data EXCEPT ![Top(t).cell] = Top(t).boxed]
    /\ writes' = [writes EXCEPT ![Top(t).cell] = @ + 1]
    /\ stack' = SetTop(t, [Top(t) EXCEPT !.pc = "read"])
    /\ UNCHANGED <<INITIALIZED, heap, status, calls, expr, evalCount, winners,
                   casCount, returned, failures>>

\* a load of `data` that waits for the slot to be published
Read_spin(t) ==
    /\ Active(t)
    /\ Top(t).pc = "read"
    /\ data[Top(t).cell] # NULL
    /\ stack' = SetTop(t, [Top(t) EXCEPT !.pc = "ret",
                                         !.static_ref = data[Top(t).cell]])
    /\ UNCHANGED <<INITIALIZED, data, heap, status, calls, expr, hist>>

\* line 108: let static_ref = unsafe {&*data};
Read(t) ==
    /\ Active(t)
    /\ Top(t).pc = "read"
    /\ stack' = SetTop(t, [Top(t) EXCEPT !.pc = "ret",
                                         !.static_ref = data[Top(t).cell]])
    /\ UNCHANGED <<INITIALIZED, data, heap, status, calls, expr, hist>>

\* line 110: deref() returns static_ref, to the thread's own code or to
\* the `$e` that made the nested call
Return(t) ==
    /\ Active(t)
    /\ Top(t).pc = "ret"
    /\ returned' = [returned EXCEPT ![Top(t).cell] = @ \cup {Top(t).static_ref}]
    /\ LET n == Len(stack[t])
       IN stack' = [stack EXCEPT ![t] =
                      IF n = 1 THEN <<>>
                      ELSE [SubSeq(@, 1, n - 1) EXCEPT ![n - 1] =
                              [@ EXCEPT !.pc = "use", !.arg = Top(t).static_ref]]]
    /\ UNCHANGED <<INITIALIZED, data, heap, status, calls, expr, evalCount,
                   winners, casCount, writes, failures>>

\* the steps that belong to deref() itself, not to `$e`
DerefStep(t) == Cas(t) \/ Store(t) \/ Read(t) \/ Return(t)

Next ==
    \E t \in Threads :
        \/ \E c \in Cells : Call(t, c)
        \/ Cas(t)
        \/ EvalValue(t)
        \/ EvalPanic(t)
        \/ EvalDiverge(t)
        \/ EvalDeref(t)
        \/ EvalUse(t)
        \/ Store(t)
        \/ Read(t)
        \/ Return(t)

Spec == Init /\ [][Next]_vars

TypeOK ==
    /\ INITIALIZED \in [Cells -> BOOLEAN]
    /\ data \in [Cells -> 0..Len(heap)]
    /\ \A t \in Threads : Len(stack[t]) <= MaxDepth

\* ----- constructor expressions that return, fair scheduling -----------------
\* the `$e` of HASHMAP returns a value; the `$e` of COUNT returns a value,
\* directly or computed from a deref of HASHMAP (the crate's example)
ReturningProgram ==
    expr["HASHMAP"] = "value" /\ expr["COUNT"] \in {"value", "HASHMAP"}

InitReturns == Init /\ ReturningProgram

\* what a thread does once it is inside deref(): lines 104-110
Run(t) ==
    \/ Cas(t)
    \/ EvalValue(t)
    \/ EvalDeref(t)
    \/ EvalUse(t)
    \/ Store(t)
    \/ Read(t)
    \/ Return(t)

NextReturns ==
    \E t \in Threads :
        \/ \E c \in Cells : Call(t, c)
        \/ Run(t)

\* a thread that is inside deref() is scheduled again; no thread is obliged
\* to start a deref
FairSpec ==
    InitReturns /\ [][NextReturns]_vars /\ \A t \in Threads : WF_vars(Run(t))

\* ----- derefs that do not overlap in time -----------------------------------
\* no thread is inside deref()
Idle == \A t \in Threads : stack[t] = <<>>

\* a deref that starts only when every earlier one has returned
CallSeq(t, c) == Idle /\ Call(t, c)

NextSeq ==
    \E t \in Threads :
        \/ \E c \in Cells : CallSeq(t, c)
        \/ Run(t)

SeqSpec == InitReturns /\ [][NextSeq]_vars

\* the read through a null reference inside an `$e` has faulted
Faulted == \E t \in Threads : status[t] = "crashed"

\* ----- properties ---------------------------------------------------------
\* C1: the constructor expression of a cell is evaluated exactly once: never
\* twice, and never zero times once some deref() of the cell has returned.
ExactlyOnceConstruction ==
    \A c \in Cells :
        /\ evalCount[c] <= 1
        /\ (returned[c] # {} => evalCount[c] = 1)

\* C2: no deref() turns the slot into a reference while the slot still holds
\* its initial null pointer.
NoNullObserved ==
    \A t \in Threads : \A i \in 1..Len(stack[t]) :
        stack[t][i].pc = "ret" => stack[t][i].static_ref # NULL

\* C3 (I1): whenever INITIALIZED is true, `data` is not the null pointer.
FlagImpliesSlot ==
    \A c \in Cells : INITIALIZED[c] => data[c] # NULL

\* C4: all deref() calls of a cell that return, return the same reference.
SameReference ==
    \A c \in Cells : Cardinality(returned[c]) <= 1

\* C5: INITIALIZED never goes back from true to false, and among the
\* compare-and-swaps ever executed on a cell exactly one observed `false`.
FlagMonotoneUniqueWinner ==
    /\ [](\A c \in Cells : /\ winners[c] <= 1
                           /\ (casCount[c] >= 1 => winners[c] = 1)
                           /\ (INITIALIZED[c] <=> winners[c] = 1))
    /\ [][\A c \in Cells : INITIALIZED[c] => INITIALIZED'[c]]_vars

LoserAfterWinner ==
    \E c \in Cells : casCount[c] >= 2 /\ winners[c] = 1 /\ INITIALIZED[c]

\* C6: `data` is stored to at most once, only by the deref() that won the
\* compare-and-swap, and once non-null it never changes again.
SingleWriterWriteOnce ==
    /\ [](\A c \in Cells : writes[c] <= 1)
    /\ [](\A t \in Threads : \A i \in 1..Len(stack[t]) :
            stack[t][i].pc \in {"eval", "in_e", "use", "store"} => stack[t][i].won)
    /\ [][\A c \in Cells : data[c] # NULL => data'[c] = data[c]]_vars

WrittenAndReadByLoser ==
    \E c \in Cells :
        /\ writes[c] = 1
        /\ data[c] # NULL
        /\ \E t \in Threads : Active(t) /\ Top(t).cell = c /\ ~Top(t).won
                              /\ Top(t).pc = "ret"

\* C7: a deref() that starts when the flag is set and the slot is written
\* changes neither flag, slot nor evaluation count in any of its steps, and
\* the reference it returns is the published one.
IdempotentReads ==
    [][\A t \in Threads :
          (Active(t) /\ Top(t).late /\ stack'[t] # stack[t]) =>
              /\ INITIALIZED' = INITIALIZED
              /\ data' = data
              /\ evalCount' = evalCount
              /\ heap' = heap
              /\ (Top(t).pc = "ret" =>
                    /\ Top(t).static_ref = data[Top(t).cell]
                    /\ Top(t).static_ref # NULL)]_vars

LateCallReturns ==
    \E t \in Threads : Active(t) /\ Top(t).late /\ Top(t).pc = "ret"

\* C8: no step of deref() itself (compare-and-swap, store, load, return) is
\* ever disabled: a call never waits for another thread, in particular not
\* for a winner that is still inside the constructor expression.
NonBlocking ==
    \A t \in Threads :
        (Active(t) /\ Top(t).pc \in {"cas", "store", "read", "ret"})
            => ENABLED DerefStep(t)

LoserReturnedDuringConstruction ==
    \E c \in Cells :
        /\ returned[c] # {}
        /\ \E t \in Threads : /\ Active(t)
                              /\ \E i \in 1..Len(stack[t]) :
                                    /\ stack[t][i].cell = c
                                    /\ stack[t][i].won
                                    /\ stack[t][i].pc \in {"eval", "in_e"}

\* C9: if the constructor expression of a cell never returns, no deref() of
\* that cell ever returns.
DivergeBlocksEveryCaller ==
    \A c \in Cells : expr[c] = "diverge" => returned[c] = {}

\* C10: a panic of the constructor expression reaches one deref() of the
\* cell only, the one that won, and the expression is not evaluated again by
\* any later or concurrent deref().
PanicNotRetried ==
    \A c \in Cells :
        expr[c] = "panic" =>
            /\ evalCount[c] <= 1
            /\ failures[c] = evalCount[c]
            /\ evalCount[c] <= winners[c]

PanicThenAnotherCall ==
    \E c \in Cells : failures[c] = 1 /\ casCount[c] >= 2 /\ returned[c] # {}

\* C11: after the constructor expression of a cell has panicked, the thread
\* that triggered it has observed the panic, and no deref() that loads the
\* slot of that cell from then on gets the null pointer in place of a
\* constructed value.
NoSubstitutionAfterFailure ==
    /\ [](\A c \in Cells : failures[c] >= 1 =>
             \E t \in Threads : status[t] = "panicked")
    /\ [][\A t \in Threads :
            (/\ Active(t)
             /\ Top(t).pc = "read"
             /\ failures[Top(t).cell] >= 1
             /\ stack'[t] # stack[t]) => data[Top(t).cell] # NULL]_vars

\* the crate's example: HASHMAP built from literals, COUNT = HASHMAP.len()
ExampleProgram == expr["HASHMAP"] = "value" /\ expr["COUNT"] = "HASHMAP"

\* C12: in the example program, once both COUNT and HASHMAP are constructed,
\* the value of COUNT is the one derived from the constructed HASHMAP.
DependentCellValue ==
    (ExampleProgram /\ data["COUNT"] # NULL /\ data["HASHMAP"] # NULL)
        => heap[data["COUNT"]] = heap[data["HASHMAP"]]

\* C13: as long as no deref() of a cell has run its compare-and-swap the flag
\* is false, the slot is null and the constructor expression has not been
\* evaluated; the compare-and-swap that wins is the first one executed on the
\* cell, and only the call that won evaluates the expression.
Laziness ==
    /\ [](\A c \in Cells : casCount[c] = 0 =>
             ~INITIALIZED[c] /\ data[c] = NULL /\ evalCount[c] = 0)
    /\ [][\A c \in Cells : winners'[c] # winners[c] => casCount[c] = 0]_vars
    /\ [][\A t \in Threads :
            (Active(t) /\ stack'[t] # stack[t] /\ evalCount' # evalCount)
                => Top(t).won /\ evalCount[Top(t).cell] = 0]_vars

EvaluatedInFirstCall ==
    \E t \in Threads :
        /\ Active(t)
        /\ Top(t).won
        /\ Top(t).pc = "store"
        /\ casCount[Top(t).cell] >= 2
        /\ evalCount[Top(t).cell] = 1

FastPathNoCas ==
    [][\A t \in Threads :
          (Active(t) /\ Top(t).late /\ stack'[t] # stack[t])
              => casCount' = casCount]_vars

\* C15, amended: such a deref() executes one compare-and-swap on the flag,
\* which observes `true` and leaves the flag as it is, goes on to the load of
\* the slot and never enters the branch of the constructor expression.
FastPathFailedCas ==
    /\ [](\A t \in Threads : \A i \in 1..Len(stack[t]) :
            stack[t][i].late =>
                /\ stack[t][i].pc \in {"cas", "read", "ret"}
                /\ ~stack[t][i].won)
    /\ [][\A t \in Threads :
            (/\ Active(t)
             /\ Top(t).late
             /\ Top(t).pc = "cas"
             /\ stack'[t] # stack[t]) =>
                /\ casCount'[Top(t).cell] = casCount[Top(t).cell] + 1
                /\ winners' = winners
                /\ INITIALIZED' = INITIALIZED
                /\ INITIALIZED[Top(t).cell]
                /\ stack'[t][Len(stack'[t])].pc = "read"]_vars

FastPathAfterCas ==
    \E t \in Threads :
        /\ Active(t)
        /\ Top(t).late
        /\ Top(t).pc = "read"
        /\ casCount[Top(t).cell] >= 2

\* C16: when derefs do not overlap and no `$e` derefs its own cell, a cell
\* behaves as an ideal once-cell: the first deref of the cell evaluates `$e`
\* once and returns the constructed value, every later deref returns that
\* same reference and evaluates nothing.
SequentialOnceCell ==
    /\ \A c \in Cells :
          /\ evalCount[c] <= 1
          /\ NULL \notin returned[c]
          /\ (returned[c] # {} => returned[c] = {data[c]})
    /\ \A t \in Threads : \A i \in 1..Len(stack[t]) :
          LET f == stack[t][i]
          IN /\ (f.pc # "cas" => (f.won <=> ~f.late))
             /\ (f.pc = "ret" =>
                    /\ f.static_ref = data[f.cell]
                    /\ f.static_ref # NULL
                    /\ heap[f.static_ref] = EntryCount
                    /\ evalCount[f.cell] = 1)

SecondCallSameReference ==
    \E t \in Threads :
        /\ Active(t)
        /\ Top(t).late
        /\ Top(t).pc = "ret"
        /\ returned[Top(t).cell] = {Top(t).static_ref}
        /\ evalCount[Top(t).cell] = 1

\* C17: the deref() that won the compare-and-swap and whose `$e` returned
\* loads from the slot exactly the pointer it stored there.
WinnerSeesOwnValue ==
    \A t \in Threads : \A i \in 1..Len(stack[t]) :
        (stack[t][i].won /\ stack[t][i].pc = "ret") =>
            /\ stack[t][i].static_ref = stack[t][i].boxed
            /\ stack[t][i].static_ref # NULL
            /\ data[stack[t][i].cell] = stack[t][i].boxed

WinnerReturnsAfterLoser ==
    \E t \in Threads :
        /\ Active(t)
        /\ Top(t).won
        /\ Top(t).pc = "ret"
        /\ NULL \in returned[Top(t).cell]

\* a deref() a constructor expression makes on its own cell: activation i of
\* thread t sits directly inside the `$e` of the same cell
Reentrant(t, i) ==
    /\ i \in 2..Len(stack[t])
    /\ stack[t][i].cell = stack[t][i - 1].cell

\* C18: a deref() made by the constructor expression of the same cell finds
\* the flag already true, never enters the constructor expression again, is
\* never made to wait, and loads the slot while it is still null.
ReentrantReadsNull ==
    \A t \in Threads : \A i \in 1..Len(stack[t]) :
        Reentrant(t, i) =>
            /\ i = Len(stack[t])
            /\ INITIALIZED[stack[t][i].cell]
            /\ data[stack[t][i].cell] = NULL
            /\ stack[t][i].pc \in {"cas", "read", "ret"}
            /\ ~stack[t][i].won
            /\ (stack[t][i].pc = "ret" => stack[t][i].static_ref = NULL)
            /\ (status[t] = "running" => ENABLED DerefStep(t))
            /\ evalCount[stack[t][i].cell] = 1

ReentrantCallAtReturn ==
    \E t \in Threads : \E i \in 1..Len(stack[t]) :
        Reentrant(t, i) /\ stack[t][i].pc = "ret" /\ status[t] = "running"
====
